---- MODULE Spec2Model ----
(***************************************************************************)
(* Model of package inject of ttd2089/stahp: the ServiceCollection, the    *)
(* ServiceProvider built from it, and ServiceProvider.Resolve with its     *)
(* three lifetimes, run by concurrent goroutines.                          *)
(*                                                                         *)
(* Go maps are reference values, so the registration maps live in a heap   *)
(* (regHeap) and the collection and the provider hold map references.      *)
(* The unlocked read of scopedInstances in resolveScoped can overlap the   *)
(* locked write of another goroutine; such a read is a data race and is    *)
(* modelled by every outcome the Go runtime produces for it.               *)
(***************************************************************************)
EXTENDS Integers, FiniteSets, Sequences, TLC

\* ---------------------------------------------------------------- bounds
\* activations of Resolve that can exist: the calls goroutines make on the
\* provider and the calls factories make on the resolver they are given
NumThreads == 2
\* Resolve calls begun, over all activations
MaxCalls == 3
\* RegisterType / RegisterFunc calls
MaxRegs == 2
\* (value, error) pairs queued in the ServiceResolver test double
MaxReturns == 2

Threads == 1..NumThreads
Keys == {"A", "B"}

\* ------------------------------------------------- lifetime.go constants
Transient == 1
Scoped == 2
Singleton == 3

Lifetimes == {Transient, Scoped, Singleton}

\* ServiceLifetime is an int: a caller can pass a value that is none of the
\* three constants, as in RegisterType(&services, 4, &T{}).
UnknownLifetime == 4
LifetimeValues == Lifetimes \cup {UnknownLifetime}

\* ------------------------------------------------------------ data model
\* Kinds of the implementation type seen by reflect: a struct, a pointer to
\* a struct, an interface, any other by-value kind (int, ...), and the nil
\* reflect.Type that reflect.TypeOf gives for a nil interface value.
ImplKinds == {"struct", "ptr", "iface", "int", "nil"}

\* serviceRegistration{lifetime, factory}.  The factory is one of the two
\* closures of getDefaultFactory ("zero", "new") or the closure wrapping a
\* caller-supplied function: "func", which uses no other service and may
\* fail, or "funcA" / "funcB", which first resolves service A / B from the
\* resolver it is given and fails when that resolution fails.
NoReg == [lifetime |-> 0, factory |-> "none"]
serviceRegistration(lifetime, factory) == [lifetime |-> lifetime, factory |-> factory]

MapIds == 1..2
NilMap == 0
EmptyRegs == [k \in Keys |-> NoReg]

NilInst == 0
NoResult == [key |-> "none", kind |-> "none", inst |-> NilInst, err |-> "nil"]
OkResult(k, i) == [key |-> k, kind |-> "ok", inst |-> i, err |-> "nil"]
ErrResult(k, e) == [key |-> k, kind |-> "err", inst |-> NilInst, err |-> e]

VARIABLES
    regHeap,      \* heap of map[reflect.Type]serviceRegistration values
    mapsMade,     \* number of registration maps made so far
    collRegs,     \* ServiceCollection.registrations (a map reference or nil)
    provRegs,     \* ServiceProvider.registrations   (a map reference; nil before Build)
    cache,        \* ServiceProvider.scopedInstances
    mu,           \* ServiceProvider.mu: 0 when free, else the holder
    pc,           \* position of each goroutine: idle, inside Resolve, or where it panicked
    key,          \* the type_ argument of the goroutine's current or last Resolve
    pend,         \* the service a goroutine got from the factory and is storing
    res,          \* what the last finished Resolve of the goroutine returned
    done,         \* number of Resolve calls the goroutine has finished
    started,      \* number of Resolve calls begun, over all goroutines
    calls,        \* factory invocations per service type
    nextInst,     \* next fresh instance identity
    returned,     \* instances returned by Resolve so far
    regErr,       \* error of the last RegisterType / RegisterFunc call
    nregs,        \* number of registration calls made
    overwrote,    \* whether the last addRegistration replaced an entry
    fault,        \* "none", or what ended the process: the panic site, or
                  \* "fatal" for the runtime's concurrent-map-access error
    waits,        \* waits[t] = c: the factory running in activation t has called
                  \* resolver.Resolve as activation c and awaits its result; else 0
    returnValues, \* a test double of ServiceResolver: the (value, error) pairs
                  \* it will return, in order
    apiRes        \* outcome of the last call of the typed helpers or of an
                  \* operation given a nil receiver

vars == <<regHeap, mapsMade, collRegs, provRegs, cache, mu, pc, key, pend, res,
          done, started, calls, nextInst, returned, regErr, nregs, fault, waits,
          returnValues, apiRes, overwrote>>

collVars == <<regHeap, mapsMade, collRegs, regErr, nregs, overwrote>>
provVars == <<provRegs, cache, mu>>
threadVars == <<pc, key, pend, res, done, started, calls, nextInst, returned, waits>>
apiVars == <<returnValues, apiRes>>

NoApiRes == [op |-> "none", kind |-> "none", val |-> "none", err |-> "nil"]

Init ==
    /\ regHeap = [m \in MapIds |-> EmptyRegs]
    /\ mapsMade = 0
    /\ collRegs = NilMap
    /\ provRegs = NilMap
    /\ cache = [k \in Keys |-> NilInst]
    /\ mu = 0
    /\ pc = [t \in Threads |-> "idle"]
    /\ key = [t \in Threads |-> "none"]
    /\ pend = [t \in Threads |-> NilInst]
    /\ res = [t \in Threads |-> NoResult]
    /\ done = [t \in Threads |-> 0]
    /\ started = 0
    /\ calls = [k \in Keys |-> 0]
    /\ nextInst = 1
    /\ returned = {}
    /\ regErr = "none"
    /\ nregs = 0
    /\ overwrote = FALSE
    /\ fault = "none"
    /\ waits = [t \in Threads |-> 0]
    /\ returnValues = <<>>
    /\ apiRes = NoApiRes

\* ------------------------------------------------------ ServiceCollection
\* The contents of a map reference; reading a nil map finds nothing.
MapOf(ref) == IF ref = NilMap THEN EmptyRegs ELSE regHeap[ref]

\* Whether a map lookup found an entry (the ok of v, ok := m[key]).
Present(registration) == registration # NoReg

\* addRegistration keeping the entry a key already has.
addRegistration_keepFirst(serviceType, registration) ==
    /\ overwrote' = FALSE
    /\ IF collRegs = NilMap
       THEN /\ mapsMade' = mapsMade + 1
            /\ collRegs' = mapsMade + 1
            /\ regHeap' = [regHeap EXCEPT ![mapsMade + 1] =
                               [EmptyRegs EXCEPT ![serviceType] = registration]]
       ELSE /\ UNCHANGED <<mapsMade, collRegs>>
            /\ regHeap' = [regHeap EXCEPT ![collRegs][serviceType] =
                               IF Present(@) THEN @ ELSE registration]

\* addRegistration: make the map when it is nil, then store the entry.
addRegistration(serviceType, registration) ==
    /\ overwrote' = Present(MapOf(collRegs)[serviceType])
    /\ IF collRegs = NilMap
       THEN /\ mapsMade' = mapsMade + 1
            /\ collRegs' = mapsMade + 1
            /\ regHeap' = [regHeap EXCEPT ![mapsMade + 1] =
                               [EmptyRegs EXCEPT ![serviceType] = registration]]
       ELSE /\ UNCHANGED <<mapsMade, collRegs>>
            /\ regHeap' = [regHeap EXCEPT ![collRegs][serviceType] = registration]

\* getDefaultFactory: the closure chosen by the kind, "panic" when the kind
\* is neither a struct nor a pointer to a struct.
getDefaultFactory(kind) ==
    CASE kind = "struct" -> "zero"
      [] kind = "ptr" -> "new"
      [] OTHER -> "panic"

\* The struct test read as "any struct", whatever the lifetime.
NonTransientStruct_anyStruct(lifetime, kind) == kind = "struct"

\* lifetime != Transient && implType.Kind() == reflect.Struct (lines 129, 178).
NonTransientStruct(lifetime, kind) == lifetime # Transient /\ kind = "struct"

\* RegisterFunc without the assignability test.
InvalidImplementation_never(assignable) == FALSE

\* !implType.AssignableTo(serviceType) (line 174).
InvalidImplementation(assignable) == ~assignable

\* The functions a caller can hand to RegisterFunc, and the service such a
\* function resolves from its resolver ("none" when it uses no service).
FuncFactories == {"func", "funcA", "funcB"}
Requires(factory) ==
    CASE factory = "funcA" -> "A"
      [] factory = "funcB" -> "B"
      [] OTHER -> "none"

\* A rejected call that drops the registration its key had.
Rejected_reset(k) ==
    /\ regHeap' = IF collRegs = NilMap THEN regHeap
                  ELSE [regHeap EXCEPT ![collRegs][k] = NoReg]
    /\ UNCHANGED <<mapsMade, collRegs, overwrote>>

\* A registration call for key k that returns its error (lines 130, 175,
\* 179) does so before addRegistration: the collection is not touched.
Rejected(k) == UNCHANGED <<regHeap, mapsMade, collRegs, overwrote>>

\* RegisterType[T](services, lifetime, type_) for a non-nil services.
RegisterType(k, lifetime, kind) ==
    /\ fault = "none"
    /\ UNCHANGED apiVars
    /\ nregs < MaxRegs
    /\ nregs' = nregs + 1
    /\ UNCHANGED <<provVars, threadVars>>
    /\ IF kind = "nil"
       THEN \* reflect.TypeOf(nil) is nil and implType.Kind() dereferences it
            /\ fault' = "nilType"
            /\ UNCHANGED <<regHeap, mapsMade, collRegs, regErr, overwrote>>
       ELSE IF NonTransientStruct(lifetime, kind)
       THEN /\ regErr' = "ErrNonTransientStruct"
            /\ Rejected(k)
            /\ UNCHANGED fault
       ELSE IF getDefaultFactory(kind) = "panic"
       THEN /\ fault' = "getDefaultFactory"
            /\ UNCHANGED <<regHeap, mapsMade, collRegs, regErr, overwrote>>
       ELSE /\ addRegistration(k, serviceRegistration(lifetime, getDefaultFactory(kind)))
            /\ regErr' = "nil"
            /\ UNCHANGED fault

\* RegisterFunc[Service, Impl](services, lifetime, factory) for a non-nil
\* services; kind is the kind of Impl and assignable is
\* implType.AssignableTo(serviceType).
RegisterFunc(k, lifetime, kind, assignable, factory) ==
    /\ fault = "none"
    /\ UNCHANGED apiVars
    /\ nregs < MaxRegs
    /\ nregs' = nregs + 1
    /\ UNCHANGED <<provVars, threadVars, fault>>
    /\ IF InvalidImplementation(assignable)
       THEN /\ regErr' = "ErrInvalidImplementation"
            /\ Rejected(k)
       ELSE IF NonTransientStruct(lifetime, kind)
       THEN /\ regErr' = "ErrNonTransientStruct"
            /\ Rejected(k)
       ELSE /\ addRegistration(k, serviceRegistration(lifetime, factory))
            /\ regErr' = "nil"

\* Build handing out the collection's own map instead of a copy.
BuildMapRef_alias(src, fresh) == src

\* The map reference Build puts in the provider: a new map (maps.Copy fills
\* it), never the collection's own map.
BuildMapRef(src, fresh) == fresh

\* ServiceCollection.Build for a non-nil collection.
Build ==
    /\ fault = "none"
    /\ UNCHANGED apiVars
    /\ provRegs = NilMap
    /\ mapsMade' = mapsMade + 1
    /\ provRegs' = BuildMapRef(collRegs, mapsMade + 1)
    /\ regHeap' = [regHeap EXCEPT ![mapsMade + 1] = MapOf(collRegs)]
    /\ cache' = [k \in Keys |-> NilInst]
    /\ mu' = 0
    /\ UNCHANGED <<collRegs, regErr, nregs, overwrote, threadVars, fault>>

\* -------------------------------------------------------- ServiceProvider
\* A mutex that lets every Lock through.
MutexFree_always(m) == TRUE

\* Whether sync.Mutex.Lock can proceed: only when nobody holds the mutex.
MutexFree(m) == m = 0

\* The deferred Unlock left out: the mutex stays with its holder.
Unlock_leak(holder) == holder

\* The mutex after the deferred provider.mu.Unlock() (line 91) has run for
\* its holder, on whichever return of resolveScoped.
Unlock(holder) == 0

\* The switch sending Transient through resolveScoped as well.
Dispatch_transientScoped(lifetime) ==
    CASE lifetime = Transient -> "resolveScoped"
      [] lifetime = Scoped -> "resolveScoped"
      [] lifetime = Singleton -> "factory"
      [] OTHER -> "unreachable"

\* The switch on registration.lifetime in Resolve: Transient and Singleton
\* both call the factory directly, Scoped goes through resolveScoped.
Dispatch(lifetime) ==
    CASE lifetime = Transient -> "factory"
      [] lifetime = Scoped -> "resolveScoped"
      [] lifetime = Singleton -> "factory"
      [] OTHER -> "unreachable"

\* What a call of a registered factory can do: the default factories always
\* produce a value, a caller-supplied function may also return an error.
FactoryOutcomes(factory) == IF factory = "func" THEN {"ok", "err"} ELSE {"ok"}

\* The example value of type T given to the n-th registration call; where it
\* is a pointer it is an instance of its own, none of those built later.
ExampleInst(n) == 0 - n

\* The default factory of a pointer type handing back the example instance.
FactoryResult_example(factory, fresh) == IF factory = "new" THEN ExampleInst(1) ELSE fresh

\* The service a factory call produces: reflect.Zero(type_).Interface()
\* (line 150), reflect.New(elemType).Interface() (line 156), a new pointer
\* each time, or what the caller's function returns (line 185).  The
\* closures of getDefaultFactory capture the type only, not the example.
FactoryResult(factory, fresh) == fresh

\* A Resolve call of goroutine t returns r.
Finish(t, r) ==
    /\ pc' = [pc EXCEPT ![t] = "idle"]
    /\ pend' = [pend EXCEPT ![t] = NilInst]
    /\ res' = [res EXCEPT ![t] = r]
    /\ done' = [done EXCEPT ![t] = @ + 1]
    /\ returned' = IF r.kind = "ok" /\ r.inst # NilInst
                   THEN returned \cup {r.inst} ELSE returned

\* Resolve putting an error of its own in place of the factory's.
PropagateError_wrapped(err) == "ErrWrapped"

\* The error Resolve returns when the factory returned err: err itself
\* (return registration.factory(provider), lines 75 and 79; return nil, err,
\* line 99).
PropagateError(err) == err

\* registration.factory(provider), returned as it is (Resolve lines 75, 79).
\* A factory that uses no other service runs to its end here; one that
\* resolves a service is entered and goes on in FactoryResolve.
ResolveDirect(t, k, registration) ==
    /\ calls' = [calls EXCEPT ![k] = @ + 1]
    /\ IF Requires(registration.factory) = "none"
       THEN \E o \in FactoryOutcomes(registration.factory) :
               IF o = "ok"
               THEN /\ nextInst' = nextInst + 1
                    /\ Finish(t, OkResult(k, FactoryResult(registration.factory, nextInst)))
               ELSE /\ UNCHANGED nextInst
                    /\ Finish(t, ErrResult(k, PropagateError("ErrFactory")))
       ELSE /\ pc' = [pc EXCEPT ![t] = "factoryD"]
            /\ UNCHANGED <<pend, res, done, nextInst, returned>>
    /\ UNCHANGED <<cache, mu, fault>>

\* Resolve without the test of ok: a missing key gives the zero registration.
Registered_always(registration) == TRUE

\* The ok of registration, ok := provider.registrations[type_].
Registered(registration) == registration # NoReg

\* The activations are interchangeable: they are numbered in the order of
\* their first Resolve call.
FirstCallsInOrder(t) == \A u \in Threads : u < t => (done[u] > 0 \/ pc[u] # "idle")

\* Activation t is free to run a new call: it is in no call and no factory
\* is still to read the result of its last call.
Free(t) ==
    /\ pc[t] = "idle"
    /\ \A u \in Threads : waits[u] # t
    /\ FirstCallsInOrder(t)
    /\ started < MaxCalls

\* The body of ServiceProvider.Resolve up to the dispatch on the lifetime,
\* run as activation t, for a provider obtained from Build.
Call(t, k) ==
    /\ started' = started + 1
    /\ key' = [key EXCEPT ![t] = k]
    /\ UNCHANGED <<collVars, provRegs, apiVars>>
    /\ LET registration == MapOf(provRegs)[k] IN
       IF ~Registered(registration)
       THEN /\ Finish(t, ErrResult(k, "ErrUnregistered"))
            /\ UNCHANGED <<cache, mu, calls, nextInst, fault>>
       ELSE CASE Dispatch(registration.lifetime) = "factory" ->
                   ResolveDirect(t, k, registration)
              [] Dispatch(registration.lifetime) = "resolveScoped" ->
                   /\ pc' = [pc EXCEPT ![t] = "fast"]
                   /\ UNCHANGED <<cache, mu, pend, res, done, calls, nextInst,
                                  returned, fault>>
              [] OTHER ->
                   /\ pc' = [pc EXCEPT ![t] = "unreachable"]
                   /\ fault' = "unreachable"
                   /\ UNCHANGED <<cache, mu, pend, res, done, calls, nextInst, returned>>

\* A goroutine calls provider.Resolve(type_).
Resolve(t, k) ==
    /\ fault = "none"
    /\ provRegs # NilMap
    /\ Free(t)
    /\ Call(t, k)
    /\ UNCHANGED waits

\* The factory running in activation t calls resolver.Resolve for the
\* service it requires; the resolver is the provider itself and the call
\* runs as activation c, on the goroutine of t.
FactoryResolve(t, c) ==
    /\ fault = "none"
    /\ pc[t] \in {"factoryD", "factoryS"}
    /\ waits[t] = 0
    /\ c # t
    /\ Free(c)
    /\ Call(c, Requires(MapOf(provRegs)[key[t]].factory))
    /\ waits' = [waits EXCEPT ![t] = c]

\* The call made by the factory of activation t has returned.  The factory
\* returns the error it got, or builds its instance; Resolve (lines 75, 79)
\* returns what the factory returned, resolveScoped (lines 97-100) returns
\* the error or goes on to store the service.
FactoryReturn(t) ==
    /\ fault = "none"
    /\ waits[t] # 0
    /\ pc[waits[t]] = "idle"
    /\ waits' = [waits EXCEPT ![t] = 0]
    /\ UNCHANGED <<collVars, provRegs, cache, key, started, calls, fault, apiVars>>
    /\ LET r == res[waits[t]] IN
       IF r.kind = "err"
       THEN /\ Finish(t, ErrResult(key[t], PropagateError(r.err)))
            /\ mu' = IF pc[t] = "factoryS" THEN Unlock(t) ELSE mu
            /\ UNCHANGED nextInst
       ELSE /\ nextInst' = nextInst + 1
            /\ IF pc[t] = "factoryS"
               THEN /\ pend' = [pend EXCEPT ![t] = nextInst]
                    /\ pc' = [pc EXCEPT ![t] = "writing"]
                    /\ UNCHANGED <<mu, res, done, returned>>
               ELSE /\ Finish(t, OkResult(key[t], nextInst))
                    /\ UNCHANGED mu

\* The goroutines other than t that are inside the store
\* provider.scopedInstances[type_] = service (line 106).
Writers(t) == {u \in Threads \ {t} : pc[u] = "writing"}

\* What the unlocked lookup of line 87 can give.  With no store in progress
\* it is the map's entry.  Overlapping a store it is a data race: the runtime
\* may stop the process ("concurrent map read and map write"), miss the key,
\* find a stored entry, or, for the key being stored, find the entry with
\* the interface value not, or already, written.
UnlockedRead(t, k) ==
    IF Writers(t) = {}
    THEN IF cache[k] # NilInst
         THEN {[kind |-> "found", inst |-> cache[k]]}
         ELSE {[kind |-> "miss", inst |-> NilInst]}
    ELSE {[kind |-> "fatal", inst |-> NilInst], [kind |-> "miss", inst |-> NilInst]}
         \cup {[kind |-> "found", inst |-> cache[k]] : x \in {1} \cap {IF cache[k] # NilInst THEN 1 ELSE 0}}
         \cup {[kind |-> "found", inst |-> i] :
                  i \in UNION {{NilInst, pend[u]} : u \in {w \in Writers(t) : key[w] = k}}}

\* resolveScoped lines 87-89: the lookup without the lock.
FastCheck(t) ==
    /\ fault = "none"
    /\ UNCHANGED apiVars
    /\ UNCHANGED waits
    /\ pc[t] = "fast"
    /\ UNCHANGED <<collVars, provVars, key, started, calls, nextInst>>
    /\ \E r \in UnlockedRead(t, key[t]) :
          CASE r.kind = "found" ->
                   /\ Finish(t, OkResult(key[t], r.inst))
                   /\ UNCHANGED fault
            [] r.kind = "miss" ->
                   /\ pc' = [pc EXCEPT ![t] = "lock"]
                   /\ UNCHANGED <<pend, res, done, returned, fault>>
            [] OTHER ->
                   /\ fault' = "fatal"
                   /\ UNCHANGED <<pc, pend, res, done, returned>>

\* provider.mu.Lock() (line 90): blocks while another goroutine holds mu.
Lock(t) ==
    /\ fault = "none"
    /\ UNCHANGED apiVars
    /\ UNCHANGED waits
    /\ pc[t] = "lock"
    /\ MutexFree(mu)
    /\ mu' = t
    /\ pc' = [pc EXCEPT ![t] = "locked"]
    /\ UNCHANGED <<collVars, provRegs, cache, key, pend, res, done, started,
                   calls, nextInst, returned, fault>>

\* resolveScoped without the second lookup: the lock holder always builds.
LockedRead_never(k) == NilInst

\* The lookup under the lock (line 93).
LockedRead(k) == cache[k]

\* resolveScoped lines 93-95: look again; a hit returns and the deferred
\* Unlock releases mu.
SecondCheck(t) ==
    /\ fault = "none"
    /\ UNCHANGED apiVars
    /\ UNCHANGED waits
    /\ pc[t] = "locked"
    /\ UNCHANGED <<collVars, provRegs, cache, key, started, calls, nextInst, fault>>
    /\ IF LockedRead(key[t]) # NilInst
       THEN /\ Finish(t, OkResult(key[t], LockedRead(key[t])))
            /\ mu' = Unlock(t)
       ELSE /\ pc' = [pc EXCEPT ![t] = "build"]
            /\ UNCHANGED <<mu, pend, res, done, returned>>

\* resolveScoped lines 97-100: call the factory; an error returns at once
\* (and unlocks), a service is kept to be stored.  A factory that resolves
\* a service is entered, with mu held, and goes on in FactoryResolve.
CallFactory(t) ==
    /\ fault = "none"
    /\ UNCHANGED apiVars
    /\ UNCHANGED waits
    /\ pc[t] = "build"
    /\ calls' = [calls EXCEPT ![key[t]] = @ + 1]
    /\ UNCHANGED <<collVars, provRegs, cache, key, started, fault>>
    /\ IF Requires(MapOf(provRegs)[key[t]].factory) = "none"
       THEN \E o \in FactoryOutcomes(MapOf(provRegs)[key[t]].factory) :
               IF o = "ok"
               THEN /\ nextInst' = nextInst + 1
                    /\ pend' = [pend EXCEPT ![t] =
                                   FactoryResult(MapOf(provRegs)[key[t]].factory, nextInst)]
                    /\ pc' = [pc EXCEPT ![t] = "writing"]
                    /\ UNCHANGED <<mu, res, done, returned>>
               ELSE /\ Finish(t, ErrResult(key[t], PropagateError("ErrFactory")))
                    /\ mu' = Unlock(t)
                    /\ UNCHANGED nextInst
       ELSE /\ pc' = [pc EXCEPT ![t] = "factoryS"]
            /\ UNCHANGED <<mu, pend, res, done, nextInst, returned>>

\* The store with the make of lines 103-105 done unconditionally: the map
\* is made anew and holds only the new entry.
StoreInstance_rebuild(c, k, service) == [x \in Keys |-> IF x = k THEN service ELSE NilInst]

\* The map after provider.scopedInstances[type_] = service.
StoreInstance(c, k, service) == [c EXCEPT ![k] = service]

\* resolveScoped lines 103-107: the store completes, the service is
\* returned and the deferred Unlock releases mu.  (scopedInstances is nil
\* only in a zero ServiceProvider, which has no registration and so never
\* gets here.)
WriteEnd(t) ==
    /\ fault = "none"
    /\ UNCHANGED apiVars
    /\ UNCHANGED waits
    /\ pc[t] = "writing"
    /\ cache' = StoreInstance(cache, key[t], pend[t])
    /\ mu' = Unlock(t)
    /\ Finish(t, OkResult(key[t], pend[t]))
    /\ UNCHANGED <<collVars, provRegs, key, started, calls, nextInst, fault>>

\* ServiceProvider.NewScope on a built provider, called by the goroutine
\* that built it: panic("unimplemented").
NewScope ==
    /\ fault = "none"
    /\ UNCHANGED apiVars
    /\ provRegs # NilMap
    /\ fault' = "NewScope"
    /\ UNCHANGED <<collVars, provVars, threadVars>>

\* ------------------------------------- typed helpers (resolve.go), nil receivers
\* What a ServiceResolver can return: the nil interface value, values whose
\* type is assignable to the requested T, a value whose type is not; with a
\* nil error or one of two errors.
TValues == {"t1", "t2"}
MockValues == {"nil", "u1"} \cup TValues
MockErrors == {"nil", "E1", "E2"}

ApiResult(op, kind, val, err) == [op |-> op, kind |-> kind, val |-> val, err |-> err]

\* mockResolver.returns(v, err): queue a pair for the double to return.
MockReturns(v, err) ==
    /\ fault = "none"
    /\ Len(returnValues) < MaxReturns
    /\ returnValues' = Append(returnValues, [v |-> v, err |-> err])
    /\ UNCHANGED <<collVars, provVars, threadVars, fault, apiRes>>

\* The type assertion accepting every value.
TypeAssertion_any(v) == TRUE

\* The ok of typed, ok := resolved.(T): false for the nil interface value
\* and for a value of a type not assignable to T.
TypeAssertion(v) == v \in TValues

\* Resolve[T] after resolver.Resolve returned r (resolve.go lines 26-34).
TypedResult(r) ==
    IF r.err # "nil" THEN [kind |-> "err", val |-> "zero", err |-> r.err]
    ELSE IF ~TypeAssertion(r.v) THEN [kind |-> "err", val |-> "zero", err |-> "ErrTypeMismatch"]
    ELSE [kind |-> "ok", val |-> r.v, err |-> "nil"]

\* Resolve[T](resolver) on the double: it returns its next pair.
ResolveTyped ==
    /\ fault = "none"
    /\ returnValues # <<>>
    /\ returnValues' = Tail(returnValues)
    /\ LET r == TypedResult(Head(returnValues)) IN
          apiRes' = ApiResult("Resolve", r.kind, r.val, r.err)
    /\ UNCHANGED <<collVars, provVars, threadVars, fault>>

\* MustResolve returning the zero value in place of the panic.
MustOutcome_swallow(r) == "ok"

\* MustResolve lines 42-45: panic(err) when Resolve[T] gave an error.
MustOutcome(r) == IF r.kind = "err" THEN "panic" ELSE "ok"

\* MustResolve[T](resolver) on the double.
MustResolve ==
    /\ fault = "none"
    /\ returnValues # <<>>
    /\ returnValues' = Tail(returnValues)
    /\ LET r == TypedResult(Head(returnValues)) IN
          /\ apiRes' = ApiResult("MustResolve", MustOutcome(r), r.val, r.err)
          /\ fault' = IF MustOutcome(r) = "panic" THEN "MustResolve" ELSE fault
    /\ UNCHANGED <<collVars, provVars, threadVars>>

\* Resolve[T](nil): resolve.go lines 22-24.
ResolveTypedNil ==
    /\ fault = "none"
    /\ apiRes' = ApiResult("Resolve(nil)", "err", "zero", "ErrNilResolver")
    /\ UNCHANGED <<collVars, provVars, threadVars, fault, returnValues>>

\* RegisterType(nil, ...): lines 123-125.
RegisterTypeNil ==
    /\ fault = "none"
    /\ apiRes' = ApiResult("RegisterType(nil)", "err", "none", "ErrNilCollection")
    /\ UNCHANGED <<collVars, provVars, threadVars, fault, returnValues>>

\* RegisterFunc(nil, ...): lines 167-169.
RegisterFuncNil ==
    /\ fault = "none"
    /\ apiRes' = ApiResult("RegisterFunc(nil)", "err", "none", "ErrNilCollection")
    /\ UNCHANGED <<collVars, provVars, threadVars, fault, returnValues>>

\* (*ServiceCollection)(nil).Build(): lines 32-34.
BuildNil ==
    /\ fault = "none"
    /\ apiRes' = ApiResult("Build(nil)", "err", "zero", "ErrNilBuild")
    /\ UNCHANGED <<collVars, provVars, threadVars, fault, returnValues>>

\* (*ServiceProvider)(nil).Resolve(type_): lines 66-68.
ResolveNil ==
    /\ fault = "none"
    /\ apiRes' = ApiResult("ServiceProvider.Resolve(nil)", "err", "nil", "ErrNilProvider")
    /\ UNCHANGED <<collVars, provVars, threadVars, fault, returnValues>>

\* (*ServiceProvider)(nil).NewScope(): the body is the panic of line 61,
\* whatever the receiver.
NewScopeNil ==
    /\ fault = "none"
    /\ apiRes' = ApiResult("NewScope(nil)", "panic", "none", "unimplemented")
    /\ fault' = "NewScope"
    /\ UNCHANGED <<collVars, provVars, threadVars, returnValues>>

ApiNext ==
    \/ \E v \in MockValues, err \in MockErrors : MockReturns(v, err)
    \/ ResolveTyped
    \/ MustResolve
    \/ ResolveTypedNil
    \/ RegisterTypeNil
    \/ RegisterFuncNil
    \/ BuildNil
    \/ ResolveNil
    \/ NewScopeNil

ApiSpec == Init /\ [][ApiNext]_vars

\* ------------------------------------------------------------ the program
Next ==
    \/ \E k \in Keys, l \in LifetimeValues, kind \in ImplKinds \ {"iface"} :
          RegisterType(k, l, kind)
    \/ \E k \in Keys, l \in LifetimeValues, kind \in ImplKinds \ {"nil"},
          assignable \in BOOLEAN, f \in FuncFactories :
             RegisterFunc(k, l, kind, assignable, f)
    \/ Build
    \/ \E t \in Threads, k \in Keys : Resolve(t, k)
    \/ \E t \in Threads : FastCheck(t)
    \/ \E t \in Threads : Lock(t)
    \/ \E t \in Threads : SecondCheck(t)
    \/ \E t \in Threads : CallFactory(t)
    \/ \E t \in Threads : WriteEnd(t)
    \/ \E t, c \in Threads : FactoryResolve(t, c)
    \/ \E t \in Threads : FactoryReturn(t)
    \/ NewScope

Spec == Init /\ [][Next]_vars

TypeOK ==
    /\ collRegs \in {NilMap} \cup MapIds
    /\ provRegs \in {NilMap} \cup MapIds
    /\ mu \in {0} \cup Threads
    /\ \A t \in Threads : pc[t] \in {"idle", "fast", "lock", "locked", "build", "writing",
                                   "factoryD", "factoryS", "unreachable"}
    /\ \A t \in Threads : waits[t] \in {0} \cup (Threads \ {t})
    /\ fault \in {"none", "nilType", "getDefaultFactory", "unreachable", "NewScope", "fatal",
                  "MustResolve"}
    /\ Len(returnValues) <= MaxReturns

\* ================================================================ claims
\* The registration the provider holds for k.
ProvReg(k) == MapOf(provRegs)[k]

\* Goroutine t returns from a Resolve of k in this step.
Returns(t, k) == done'[t] = done[t] + 1 /\ key'[t] = k

\* Goroutine t enters Resolve with argument k in this step.
Enters(t, k) ==
    /\ started' = started + 1
    /\ pc[t] = "idle"
    /\ key'[t] = k
    /\ (pc'[t] # "idle" \/ done'[t] = done[t] + 1)

\* The instance built for a Scoped key: the cached one, or the one its
\* builder is storing.
Built(k) ==
    IF cache[k] # NilInst THEN {cache[k]}
    ELSE {pend[u] : u \in {w \in Threads : pc[w] = "writing" /\ key[w] = k}}

\* C1 (as claimed): for a Scoped key whose factory cannot fail, concurrent
\* first Resolve calls run the factory once and every call that has returned
\* returned the one instance built.
C1_ScopedConcurrentOnce ==
    \A k \in Keys :
        (ProvReg(k).lifetime = Scoped /\ ProvReg(k).factory = "new") =>
            /\ calls[k] <= 1
            /\ \A t \in Threads :
                  res[t].key = k => (res[t].kind = "ok" /\ res[t].inst \in Built(k))

\* C2 (as claimed): for a Singleton key the factory runs at most once and all
\* successful resolutions have returned the same instance.
C2_SingletonOnce ==
    \A k \in Keys :
        ProvReg(k).lifetime = Singleton =>
            /\ calls[k] <= 1
            /\ \A t, u \in Threads :
                  (res[t].key = k /\ res[u].key = k /\ res[t].kind = "ok" /\ res[u].kind = "ok")
                      => res[t].inst = res[u].inst

\* C3: once a Scoped key has its instance stored, no step invokes its factory
\* again and every Resolve of the key that returns, returns that instance.
C3_ScopedCachedStays ==
    [][\A k \in Keys :
          (ProvReg(k).lifetime = Scoped /\ cache[k] # NilInst) =>
              /\ calls'[k] = calls[k]
              /\ \A t \in Threads : Returns(t, k) => res'[t] = OkResult(k, cache[k])]_vars

C3_Witness ==
    \E k \in Keys : \E t, u \in Threads :
        /\ t # u
        /\ ProvReg(k).lifetime = Scoped
        /\ cache[k] # NilInst
        /\ calls[k] = 1
        /\ res[t] = OkResult(k, cache[k])
        /\ res[u] = OkResult(k, cache[k])

\* C4: a Resolve of a Transient key invokes the factory exactly once, on
\* entry and never otherwise, and an instance it returns has not been
\* returned by any earlier Resolve.
C4_TransientFresh ==
    [][\A t \in Threads : \A k \in Keys :
          ProvReg(k).lifetime = Transient =>
              /\ Enters(t, k) => /\ calls'[k] = calls[k] + 1
                                 /\ (Returns(t, k) \/ pc'[t] = "factoryD")
              /\ calls'[k] # calls[k] => \E u \in Threads : Enters(u, k)
              /\ (Returns(t, k) /\ res'[t].kind = "ok") =>
                     (res'[t].inst # NilInst /\ res'[t].inst \notin returned)]_vars

C4_Witness ==
    \E k \in Keys : \E t, u \in Threads :
        /\ t # u
        /\ ProvReg(k).lifetime = Transient
        /\ calls[k] = 2
        /\ res[t].key = k /\ res[t].kind = "ok"
        /\ res[u].key = k /\ res[u].kind = "ok"
        /\ res[t].inst # res[u].inst

\* C5: the cache never holds an entry for a key registered Transient, and no
\* goroutine is on the caching path for such a key.
C5_TransientNotCached ==
    \A k \in Keys :
        ProvReg(k).lifetime = Transient =>
            /\ cache[k] = NilInst
            /\ \A t \in Threads :
                  pc[t] \in {"fast", "lock", "locked", "build", "factoryS", "writing"}
                      => key[t] # k

C5_Witness ==
    \E k, j \in Keys :
        /\ ProvReg(k).lifetime = Transient
        /\ calls[k] >= 1
        /\ cache[k] = NilInst
        /\ cache[j] # NilInst

\* C6 (as claimed): for a Scoped or Singleton key a failed construction leaves
\* no entry, and after a failure a Resolve that succeeds has its instance in
\* the cache.
C6_FailureNotMemoized ==
    \A k \in Keys :
        ProvReg(k).lifetime \in {Scoped, Singleton} =>
            \A t, u \in Threads :
                (res[u] = ErrResult(k, "ErrFactory") /\ res[t].key = k /\ res[t].kind = "ok")
                    => cache[k] = res[t].inst

\* C7: a Resolve of a key without registration returns the unregistered
\* error in that step, with no factory call, the lock and the cache untouched.
C7_UnregisteredError ==
    [][\A t \in Threads : \A k \in Keys :
          (Enters(t, k) /\ provRegs # NilMap /\ ProvReg(k) = NoReg) =>
              /\ Returns(t, k)
              /\ res'[t] = ErrResult(k, "ErrUnregistered")
              /\ pc'[t] = "idle"
              /\ calls' = calls
              /\ nextInst' = nextInst
              /\ mu' = mu
              /\ cache' = cache
              /\ fault' = fault]_vars

C7_Witness ==
    \E t \in Threads : \E j \in Keys :
        /\ res[t].kind = "err"
        /\ res[t].err = "ErrUnregistered"
        /\ ProvReg(res[t].key) = NoReg
        /\ cache[j] # NilInst

\* C8: an entry of the cache is never removed and never replaced.
C8_CacheGrows ==
    [][\A k \in Keys : cache[k] # NilInst => cache'[k] = cache[k]]_vars

C8_Witness ==
    /\ \A k \in Keys : cache[k] # NilInst
    /\ \E k, j \in Keys : cache[k] # cache[j]

\* C9 (as claimed): a NewScope call returns a provider, it does not panic.
C9_NewScopeReturns ==
    fault # "NewScope"

\* C10: once built, the provider keeps its map and the map keeps its
\* contents, whatever is registered in the collection afterwards.
C10_SnapshotFrozen ==
    [][provRegs # NilMap =>
          /\ provRegs' = provRegs
          /\ regHeap'[provRegs] = regHeap[provRegs]]_vars

C10_Witness ==
    /\ provRegs # NilMap
    /\ \E k \in Keys : MapOf(collRegs)[k] # ProvReg(k) /\ ProvReg(k) # NoReg
    /\ \E t \in Threads : res[t].kind = "ok"

\* --------------------------------------------------- registration claims
\* The collection's registration for k.
CollReg(k) == MapOf(collRegs)[k]

\* This step is a registration call; the call returns a nil error.
RegStep == nregs' = nregs + 1
RegOk == regErr' = "nil" /\ fault' = "none"

\* What C11 says of a registration call with this lifetime and kind.
StructRule(lifetime, kind) ==
    /\ (kind = "struct" /\ lifetime \in {Scoped, Singleton})
           => regErr' = "ErrNonTransientStruct"
    /\ ((kind = "struct" /\ lifetime = Transient) \/ kind = "ptr")
           => regErr' = "nil"

\* C11 (as claimed): RegisterType and RegisterFunc return
\* ErrNonTransientStruct for a struct implementation with lifetime Scoped or
\* Singleton, and nil for a struct registered Transient and for a pointer to
\* a struct with any lifetime, whatever the other arguments.
C11_StructRule ==
    [][RegStep =>
       /\ \A k \in Keys, l \in LifetimeValues, kind \in ImplKinds \ {"iface"} :
             StructRule(l, kind) \/ ~RegisterType(k, l, kind)
       /\ \A k \in Keys, l \in LifetimeValues, kind \in ImplKinds \ {"nil"},
             a \in BOOLEAN, f \in FuncFactories :
             StructRule(l, kind) \/ ~RegisterFunc(k, l, kind, a, f)]_vars

\* C11 (amended): the same, for RegisterType and for the RegisterFunc calls
\* whose implementation type is assignable to the service type; RegisterFunc
\* tests assignability first and returns ErrInvalidImplementation otherwise.
C11_StructRuleAssignable ==
    [][RegStep =>
       /\ \A k \in Keys, l \in LifetimeValues, kind \in ImplKinds \ {"iface"} :
             StructRule(l, kind) \/ ~RegisterType(k, l, kind)
       /\ \A k \in Keys, l \in LifetimeValues, kind \in ImplKinds \ {"nil"},
             a \in BOOLEAN, f \in FuncFactories :
             StructRule(l, kind) \/ ~(a /\ RegisterFunc(k, l, kind, a, f))]_vars

C11_Witness ==
    /\ regErr = "ErrNonTransientStruct"
    /\ nregs = 2
    /\ \E k \in Keys : CollReg(k).factory = "new" /\ CollReg(k).lifetime \in {Scoped, Singleton}

\* The by-copy kinds of implementation type.
ValueLike == {"struct", "int"}

\* C12 (as claimed): a registration call with lifetime Scoped or Singleton
\* and a value-like implementation type (assignable to the service type)
\* returns the non-transient error, whatever the value-like kind.
C12_ValueLikeRejected ==
    [][RegStep =>
       /\ \A k \in Keys, l \in LifetimeValues, kind \in ImplKinds \ {"iface"} :
             (l \in {Scoped, Singleton} /\ kind \in ValueLike /\ RegisterType(k, l, kind))
                 => (regErr' = "ErrNonTransientStruct" /\ fault' = "none")
       /\ \A k \in Keys, l \in LifetimeValues, kind \in ImplKinds \ {"nil"},
             a \in BOOLEAN, f \in FuncFactories :
             (a /\ l \in {Scoped, Singleton} /\ kind \in ValueLike
                    /\ RegisterFunc(k, l, kind, a, f))
                 => regErr' = "ErrNonTransientStruct"]_vars

\* C13: RegisterFunc with an implementation type not assignable to the
\* service type returns ErrInvalidImplementation for every lifetime and
\* stores nothing, so a RegisterFunc call that changes the collection had an
\* assignable implementation type.
C13_InvalidImplementation ==
    [][RegStep => \A k \in Keys, l \in LifetimeValues, kind \in ImplKinds \ {"nil"},
          a \in BOOLEAN, f \in FuncFactories :
          \/ /\ ~a => /\ regErr' = "ErrInvalidImplementation"
                       /\ collRegs' = collRegs
                       /\ regHeap' = regHeap
             /\ (RegOk \/ regHeap' # regHeap \/ collRegs' # collRegs) => a
          \/ ~RegisterFunc(k, l, kind, a, f)]_vars

C13_Witness ==
    /\ regErr = "ErrInvalidImplementation"
    /\ nregs = 2
    /\ \E k \in Keys : CollReg(k).factory \in FuncFactories

\* The collection after the call holds registration for k and, for every
\* other key, what it held before.
Stored(k, registration) ==
    /\ collRegs' # NilMap
    /\ regHeap'[collRegs'] = [MapOf(collRegs) EXCEPT ![k] = registration]

\* C14: a successful registration call puts its lifetime and factory under
\* its key, replacing what was there and leaving the other keys alone; Build
\* gives the provider exactly the collection's registrations; and a Resolve
\* is dispatched by the lifetime and the factory the provider holds.
C14_LastRegistrationWins ==
    [][/\ RegStep =>
             /\ \A k \in Keys, l \in LifetimeValues, kind \in ImplKinds \ {"iface"} :
                    (RegOk /\ RegisterType(k, l, kind))
                        => Stored(k, serviceRegistration(l, getDefaultFactory(kind)))
             /\ \A k \in Keys, l \in LifetimeValues, kind \in ImplKinds \ {"nil"},
                    a \in BOOLEAN, f \in FuncFactories :
                    (RegOk /\ RegisterFunc(k, l, kind, a, f))
                        => Stored(k, serviceRegistration(l, f))
       /\ Build => \A k \in Keys : regHeap'[provRegs'][k] = CollReg(k)
       /\ \A t \in Threads, k \in Keys :
             (Enters(t, k) /\ ProvReg(k).lifetime \in Lifetimes) =>
                 /\ pc'[t] = "fast" <=> ProvReg(k).lifetime = Scoped
                 /\ pc'[t] = "factoryD" <=>
                        (ProvReg(k).lifetime # Scoped /\ Requires(ProvReg(k).factory) # "none")
                 /\ calls'[k] = calls[k] + 1 <=> ProvReg(k).lifetime # Scoped]_vars

C14_Witness ==
    \E k \in Keys : \E t \in Threads :
        /\ overwrote
        /\ nregs = 2
        /\ ProvReg(k) = CollReg(k)
        /\ ProvReg(k).lifetime = Scoped
        /\ res[t] = OkResult(k, cache[k])
        /\ cache[k] # NilInst

\* ------------------------------------------- typed helper and nil claims
\* This step is a call of Resolve[T] / of MustResolve[T] on the double.
TypedStep(op) == apiRes'.op = op /\ Len(returnValues') = Len(returnValues) - 1

\* C15: Resolve[T] returns the resolver's error unchanged with the zero
\* value when the resolver fails, an error and the zero value when the
\* resolver gives a value not assignable to T, and otherwise the value the
\* resolver returned with a nil error; it never panics.
C15_TypedResolve ==
    [][TypedStep("Resolve") =>
          LET r == Head(returnValues) IN
          /\ fault' = "none"
          /\ r.err # "nil" => apiRes' = ApiResult("Resolve", "err", "zero", r.err)
          /\ (r.err = "nil" /\ r.v \notin TValues) =>
                 (apiRes'.kind = "err" /\ apiRes'.err # "nil" /\ apiRes'.val = "zero")
          /\ (r.err = "nil" /\ r.v \in TValues) =>
                 apiRes' = ApiResult("Resolve", "ok", r.v, "nil")]_vars

C15_Witness ==
    /\ apiRes.op = "Resolve"
    /\ apiRes.kind = "err"
    /\ apiRes.err = "ErrTypeMismatch"
    /\ returnValues # <<>>

\* The operations given a nil collection, provider or resolver.
NilOps == {"Resolve(nil)", "RegisterType(nil)", "RegisterFunc(nil)", "Build(nil)",
           "ServiceProvider.Resolve(nil)", "NewScope(nil)"}

\* C16 (as claimed): an operation given a nil collection, provider or
\* resolver returns an error and does not panic.
C16_NilIsAnError ==
    apiRes.op \in NilOps => (apiRes.kind = "err" /\ apiRes.err # "nil" /\ fault = "none")

\* C17: MustResolve[T] panics exactly when Resolve[T] on the same resolver
\* returns an error, with that error, and otherwise returns the value
\* Resolve[T] returns.
C17_MustResolve ==
    [][TypedStep("MustResolve") =>
          LET r == TypedResult(Head(returnValues)) IN
          /\ r.kind = "err" <=> fault' = "MustResolve"
          /\ r.kind = "err" => (apiRes'.kind = "panic" /\ apiRes'.err = r.err)
          /\ r.kind = "ok" => apiRes' = ApiResult("MustResolve", "ok", r.val, "nil")]_vars

C17_Witness ==
    /\ fault = "MustResolve"
    /\ apiRes.op = "MustResolve"
    /\ apiRes.err = "ErrTypeMismatch"

\* ------------------------------------------ factories that use the resolver
\* C18: when the factory of a Resolve returns an error, the Resolve returns
\* that error as it is, for every lifetime: the error of a factory that
\* fails of itself, and the error a factory got from the resolver and
\* returned.
C18_FactoryErrorVerbatim ==
    [][\A t \in Threads :
          /\ \A k \in Keys :
                (Returns(t, k) /\ calls'[k] = calls[k] + 1 /\ nextInst' = nextInst)
                    => res'[t] = ErrResult(k, "ErrFactory")
          /\ (waits[t] # 0 /\ waits'[t] = 0 /\ res[waits[t]].kind = "err")
                => /\ done'[t] = done[t] + 1
                   /\ res'[t] = ErrResult(key[t], res[waits[t]].err)]_vars

C18_Witness ==
    \E k, j \in Keys : \E t, u \in Threads :
        /\ ProvReg(k).lifetime = Scoped
        /\ ProvReg(j).lifetime \in {Transient, Singleton}
        /\ res[t] = ErrResult(k, "ErrFactory")
        /\ res[u] = ErrResult(j, "ErrFactory")
        /\ cache[k] = NilInst
        /\ mu = 0

\* The service the registration of k requires, "none" when it requires none.
Dep(regs, k) == IF regs[k] = NoReg THEN "none" ELSE Requires(regs[k].factory)

\* The service reached from k by n steps of "requires".
RECURSIVE Follow(_, _, _)
Follow(regs, k, n) ==
    IF n = 0 \/ k = "none" THEN k ELSE Follow(regs, Dep(regs, k), n - 1)

\* The registrations are in a bad state: a registered service requires a
\* service with no registration, or requires itself through a cycle.
BadState(regs) ==
    \E k \in Keys :
        /\ regs[k] # NoReg
        /\ \/ Dep(regs, k) # "none" /\ regs[Dep(regs, k)] = NoReg
           \/ \E n \in 1..Cardinality(Keys) : Follow(regs, k, n) = k

\* C19 (as claimed): Build gives no provider for a collection in a bad
\* state, so the registrations of a provider are never in a bad state.
C19_BuildValidates ==
    provRegs # NilMap => ~BadState(MapOf(provRegs))

\* The activations whose results activation t waits for, directly or through
\* the factories of the calls it waits for.
RECURSIVE Awaited(_, _)
Awaited(t, n) ==
    IF n = 0 \/ waits[t] = 0 THEN {} ELSE {waits[t]} \cup Awaited(waits[t], n - 1)

\* C20 (as claimed): with registrations that have every required service
\* registered and no cycle, a Resolve made by a factory never waits for a
\* lock that is held by the Resolve waiting for it, so the recursive
\* resolution can complete.
C20_NoSelfDeadlock ==
    ~BadState(MapOf(provRegs)) =>
        \A c \in Threads : (pc[c] = "lock" /\ mu # 0) => c \notin Awaited(mu, NumThreads)

\* ------------------------------------------------- the lock and the cache
\* C21 (as claimed): no goroutine reads the cache, the unlocked lookup of
\* resolveScoped included, while another goroutine is inside a store to it.
C21_CacheRaceFree ==
    [][\A t \in Threads : Writers(t) = {} \/ ~FastCheck(t)]_vars

\* The positions of resolveScoped between Lock and the deferred Unlock.
HolderPcs == {"locked", "build", "factoryS", "writing"}

\* C22: a goroutine between Lock and Unlock is the holder of mu, so there
\* is at most one; an entry of the cache changes only in a step of the
\* holder, for the key the holder resolves; the factory of a Scoped key is
\* called only by the holder, and at most one such call is in progress.
C22_LockExclusive ==
    [][/\ \A t \in Threads : pc'[t] \in HolderPcs => mu' = t
       /\ \A k \in Keys :
             cache'[k] # cache[k] => (mu # 0 /\ pc[mu] = "writing" /\ key[mu] = k)
       /\ \A k \in Keys :
             (ProvReg(k).lifetime = Scoped /\ calls'[k] # calls[k])
                 => (mu # 0 /\ pc[mu] = "build" /\ key[mu] = k)
       /\ Cardinality({t \in Threads : pc'[t] = "factoryS"}) <= 1]_vars

C22_Witness ==
    \E t, u \in Threads :
        /\ t # u
        /\ mu = t
        /\ pc[t] = "writing"
        /\ pc[u] = "lock"
        /\ key[u] = key[t]
        /\ \E k \in Keys : cache[k] # NilInst /\ k # key[t]

\* The order of the positions a lock holder goes through.
Rank(p) ==
    CASE p = "locked" -> 1
      [] p = "build" -> 2
      [] p = "factoryS" -> 3
      [] p = "writing" -> 4
      [] OTHER -> 0

\* C23 (as claimed): only a Resolve of a Scoped key goes for the lock; a
\* Resolve whose unlocked lookup is made when the key is cached does not go
\* for the lock; and a holder only moves forward through the second lookup,
\* one factory call and one store, releasing the lock when it returns.
C23_LockOnlyWhenBuilding ==
    [][\A t \in Threads :
          /\ pc'[t] \in {"lock"} \cup HolderPcs => ProvReg(key'[t]).lifetime = Scoped
          /\ (pc[t] = "fast" /\ cache[key[t]] # NilInst) => pc'[t] # "lock"
          /\ (mu = t /\ pc'[t] # pc[t]) =>
                 \/ mu' = 0 /\ pc'[t] = "idle"
                 \/ mu' = t /\ Rank(pc'[t]) > Rank(pc[t])]_vars

\* C24: the lock is held only by a goroutine that is between Lock and the
\* return of resolveScoped, so it is free whenever no Resolve is in progress
\* and a goroutine waiting for it is never kept out by a finished call.
C24_LockReleased ==
    /\ mu # 0 => pc[mu] \in HolderPcs
    /\ (\A t \in Threads : pc[t] = "idle") => mu = 0

C24_Witness ==
    \E k, j \in Keys : \E t, u \in Threads :
        /\ ProvReg(k).lifetime = Scoped
        /\ ProvReg(j).lifetime = Scoped
        /\ res[t] = ErrResult(j, "ErrFactory")
        /\ res[u] = OkResult(k, cache[k])
        /\ cache[k] # NilInst
        /\ done[t] + done[u] = 3
        /\ \A v \in Threads : pc[v] = "idle"
        /\ mu = 0

\* C25 (as claimed): a Resolve whose unlocked lookup is made when its key
\* is cached returns the cached instance in that step, whoever holds the
\* lock and whatever the holder is doing for another key.
C25_WarmFastPath ==
    [][\A t \in Threads :
          (pc[t] = "fast" /\ cache[key[t]] # NilInst /\ FastCheck(t)) =>
              /\ Returns(t, key[t])
              /\ res'[t] = OkResult(key[t], cache[key[t]])
              /\ fault' = "none"]_vars

\* ------------------------------------------------- registration outcomes
\* C26 (as claimed): every registration the collection or a provider holds
\* has one of the three lifetimes, and no Resolve reaches the default branch
\* of the switch on the lifetime.
C26_LifetimeKnown ==
    /\ \A k \in Keys : Present(CollReg(k)) => CollReg(k).lifetime \in Lifetimes
    /\ \A k \in Keys : Present(ProvReg(k)) => ProvReg(k).lifetime \in Lifetimes
    /\ fault # "unreachable"
    /\ \A t \in Threads : pc[t] # "unreachable"

\* The errors the registration functions name.
ClassifiedErrors == {"ErrNonTransientStruct", "ErrInvalidImplementation"}

\* C27 (as claimed): a registration call, whatever the implementation type
\* and the lifetime, registers or returns one of the classified errors; it
\* does not panic.
C27_RegistrationClassified ==
    [][RegStep => (fault' = "none" /\ regErr' \in {"nil"} \cup ClassifiedErrors)]_vars

\* C28: a registration call that returns an error leaves the collection's
\* map, and every registration in it, as they were before the call.
C28_RejectedLeavesCollection ==
    [][(RegStep /\ fault' = "none" /\ regErr' # "nil") =>
          /\ collRegs' = collRegs
          /\ regHeap' = regHeap]_vars

C28_Witness ==
    /\ regErr \in ClassifiedErrors
    /\ nregs = MaxRegs
    /\ ~overwrote
    /\ \E k \in Keys : CollReg(k) = serviceRegistration(Transient, "zero")

\* ------------------------------------------------- the default factories
\* The example instances given to the registration calls.
Examples == {ExampleInst(n) : n \in 1..MaxRegs}

\* The instances that exist: returned, cached, or being stored.
Known == returned \cup {cache[k] : k \in Keys} \cup {pend[t] : t \in Threads}

\* C29: for a type registered with RegisterType as a pointer to a struct,
\* each call of the factory, whatever the lifetime, gives the Resolve that
\* made it an instance that is not nil, is none of the instances that
\* exist and is no example instance; and no Resolve returns an example.
C29_PointerAlwaysNew ==
    [][/\ \A k \in Keys :
             (ProvReg(k).factory = "new" /\ calls'[k] = calls[k] + 1) =>
                 \E t \in Threads : \E x \in {pend'[t], res'[t].inst} :
                     /\ key'[t] = k
                     /\ pend'[t] # pend[t] \/ Returns(t, k)
                     /\ x # NilInst
                     /\ x \notin Known
                     /\ x \notin Examples
       /\ \A t \in Threads : res'[t].inst \notin Examples]_vars

C29_Witness ==
    \E k, j \in Keys : \E t, u \in Threads :
        /\ t # u
        /\ ProvReg(k) = serviceRegistration(Singleton, "new")
        /\ ProvReg(j) = serviceRegistration(Scoped, "new")
        /\ calls[k] = 2
        /\ res[t].kind = "ok" /\ res[t].key = k
        /\ res[u].kind = "ok" /\ res[u].key = k
        /\ res[t].inst # res[u].inst
        /\ cache[j] \notin Examples \cup {NilInst}

====
